---- MODULE Spec2Model ----
(***************************************************************************)
(* A model of osi/src/alarm.c: the pending list |alarms|, the dispatcher   *)
(* thread (callback_dispatch), the worker-queue handler                    *)
(* (alarm_queue_ready), the wake policy (reschedule_root_alarm) and the    *)
(* public operations alarm_set_on_queue, alarm_cancel, alarm_free,         *)
(* alarm_unregister_processing_queue and alarm_cleanup.                    *)
(*                                                                         *)
(* Every section of code that runs between pthread_mutex_lock(&monitor)    *)
(* and the matching unlock is one action: the monitor makes it atomic with *)
(* respect to every other such section.  The one place where a thread      *)
(* blocks while it holds the monitor, the handler's                        *)
(* pthread_mutex_lock(&alarm->callback_lock), is a state of its own        *)
(* (pc = "lockcb").                                                        *)
(***************************************************************************)
EXTENDS Integers, Sequences, FiniteSets, TLC

\* ------------------------------------------------------------------ sizes

\* Clock ticks the model lets pass.
MaxTicks == 2
\* API calls made by the caller thread.
MaxOps == 3
\* API calls made from inside callbacks.
MaxCbOps == 1
\* The same for the runs that follow a periodic alarm over more periods,
MaxTicksPeriodic == 4
MaxOpsPeriodic == 2
\* and for the runs with two one-shot alarms.
MaxTicksOneShots == 1
MaxOpsOneShots == 5
\* and for the runs in which callbacks cancel alarms.
MaxTicksLocks == 2
MaxOpsLocks == 3
MaxCbOpsLocks == 2
\* Largest value of the |alarm_expired| semaphore.
MaxSem == 2

\* ------------------------------------------------------- program constants

\* now(): ts.tv_sec * 1000LL; the model's clock advances in whole seconds.
MS_PER_SEC == 1000
NSEC_PER_MS == 1000000
TIMER_INTERVAL_FOR_WAKELOCK_IN_MS == 3000

NULL == "NULL"
NoThread == "none"

Alarms == {"A", "B"}

\* Two processing queues; the worker thread a queue is registered with
\* carries the queue's name.
Queues == {"q1", "q2"}
Callers == {"t1"}
Threads == Callers \cup Queues

VARIABLES
  now_ms,          \* the boot clock, in ms
  alarms,          \* static list_t *alarms: sequence of alarms
  al,              \* the alarm_t records
  items,           \* contents of each fixed_queue_t
  registered,      \* queue is registered with its worker's reactor
  callback_lock,   \* owner of each alarm's recursive callback_lock
  freed,           \* the record was released by alarm_free
  monitor,         \* owner of the monitor across states
  timer_set,       \* static bool timer_set
  timer_at,        \* absolute expiry the posix timer is armed for, 0: disarmed
  wake_at,         \* absolute expiry of the wake alarm requested last, 0: none
  wake_lock,       \* successful acquire_wake_lock calls minus release calls
  alarm_expired,   \* value of the semaphore
  alarms_live,     \* alarms != NULL (lazy_initialize ran, alarm_cleanup did not)
  crashed,         \* the process died (call through a null pointer)
  pc, target,      \* per thread: position, alarm of the cancel in progress
  cur, run,        \* per worker: alarm being serviced, the handler's locals
  ops, cbops,      \* API calls made so far
  setup,           \* which alarms alarm_new_periodic made; the ticks and the
                   \* API calls this run goes on for
  may_fail,        \* acquire_wake_lock may return an error
  g_cancelled,     \* history: state of the last alarm_cancel of each alarm
  g_invocations,   \* history: callback invocations since the last set
  g_uaf            \* history: how the handler touched a freed record

\* ret->is_periodic = is_periodic, never written again
is_periodic == [a \in Alarms |-> a \in setup.periodic]

\* What user code passes to alarm_set_on_queue: the one-shot alarm is set
\* one or three seconds ahead, with either callback, on either queue; the
\* periodic alarm with a period of one or two seconds, on the first queue.
PeriodsOf(a) ==
  IF is_periodic[a] THEN {MS_PER_SEC, 2 * MS_PER_SEC}
  ELSE {MS_PER_SEC, 3 * MS_PER_SEC}
CallbacksOf(a) == IF is_periodic[a] THEN {"cb1"} ELSE {"cb1", "cb2"}
QueuesOf(a) == IF is_periodic[a] THEN {"q1"} ELSE Queues
DataOf(cb) == IF cb = "cb1" THEN "d1" ELSE "d2"

\* In the longer run the periodic alarm is set on either queue, and the
\* one-shot alarm three seconds ahead on the first.
PeriodicRunPeriodsOf(a) ==
  IF is_periodic[a] THEN {MS_PER_SEC, 2 * MS_PER_SEC} ELSE {3 * MS_PER_SEC}
PeriodicRunQueuesOf(a) == IF is_periodic[a] THEN Queues ELSE {"q1"}

vars == <<now_ms, alarms, al, items, registered, callback_lock, freed, monitor,
          timer_set, timer_at, wake_at, wake_lock, alarm_expired, alarms_live,
          crashed, pc, target, cur, run, ops, cbops, setup, may_fail,
          g_cancelled, g_invocations, g_uaf>>

\* --------------------------------------------------------------- helpers

Count(s, x) == Cardinality({i \in 1..Len(s) : s[i] = x})
InSeq(s, x) == \E i \in 1..Len(s) : s[i] = x

\* list_remove: unlinks the first node holding |x|.
list_remove(l, x) ==
  IF InSeq(l, x)
  THEN LET i == CHOOSE i \in 1..Len(l) :
                  l[i] = x /\ \A j \in 1..(i - 1) : l[j] # x
       IN  SubSeq(l, 1, i - 1) \o SubSeq(l, i + 1, Len(l))
  ELSE l

\* while (fixed_queue_try_remove_from_queue(queue, alarm) != NULL) {}
queue_remove_all(s, x) == SelectSeq(s, LAMBDA y : y # x)

ZeroAlarm == [creation_time |-> 0, period |-> 0, deadline |-> 0,
              prev_deadline |-> 0, queue |-> NULL, callback |-> NULL,
              data |-> NULL]

NoRun == [callback |-> NULL, data |-> NULL, deadline |-> 0]

\* The state the monitor protects, as one value the operations transform.
Cur == [alarms |-> alarms, al |-> al, items |-> items,
        timer_set |-> timer_set, timer_at |-> timer_at, wake_at |-> wake_at,
        wake_lock |-> wake_lock, sem |-> alarm_expired, crash |-> FALSE]

Commit(S) ==
  /\ S.sem <= MaxSem
  /\ alarms' = S.alarms
  /\ al' = S.al
  /\ items' = S.items
  /\ timer_set' = S.timer_set
  /\ timer_at' = S.timer_at
  /\ wake_at' = S.wake_at
  /\ wake_lock' = S.wake_lock
  /\ alarm_expired' = S.sem
  /\ crashed' = S.crash

\* ------------------------------------------------- the scheduling functions

\* reschedule_root_alarm.  |ok| is what acquire_wake_lock answers.
reschedule_root_alarm(S, ok) ==
  LET timer_was_set == S.timer_set
      empty == S.alarms = <<>>
      next == Head(S.alarms)
      next_expiration == S.al[next].deadline - now_ms
      short == next_expiration < TIMER_INTERVAL_FOR_WAKELOCK_IN_MS
      acquire == ~empty /\ short /\ ~S.timer_set
      arm == ~empty /\ short /\ (S.timer_set \/ ok)
      wakeup_time ==
        IF arm
        THEN [tv_sec |-> S.al[next].deadline \div MS_PER_SEC,
              tv_nsec |-> (S.al[next].deadline % MS_PER_SEC) * NSEC_PER_MS]
        ELSE [tv_sec |-> 0, tv_nsec |-> 0]
      new_timer_set == wakeup_time.tv_sec # 0 \/ wakeup_time.tv_nsec # 0
      expiry == wakeup_time.tv_sec * MS_PER_SEC
                  + wakeup_time.tv_nsec \div NSEC_PER_MS
      \* timer_gettime reads zero when the timer has expired already
      disarmed_itself == new_timer_set /\ expiry <= now_ms
  IN  [S EXCEPT
        !.wake_lock = @ + (IF acquire /\ ok THEN 1 ELSE 0)
                        - (IF timer_was_set /\ ~new_timer_set THEN 1 ELSE 0),
        !.wake_at = IF ~empty /\ ~short THEN now_ms + next_expiration ELSE @,
        !.timer_set = new_timer_set,
        !.timer_at = expiry,
        !.sem = @ + (IF disarmed_itself THEN 1 ELSE 0)]

\* A removal that leaves the posted copies in the processing queue:
\* Uniqueness tells it from remove_pending_alarm.
remove_pending_alarm_list_only(S, a) ==
  [S EXCEPT !.alarms = list_remove(@, a)]

\* remove_pending_alarm
remove_pending_alarm(S, a) ==
  [S EXCEPT
    !.alarms = list_remove(@, a),
    !.items = [q \in Queues |->
                 IF q = S.al[a].queue THEN queue_remove_all(@[q], a) ELSE @[q]]]

\* The insertion of schedule_next_instance: sorted by deadline, earliest first.
list_insert_by_deadline(l, rec, a) ==
  IF l = <<>> \/ rec[Head(l)].deadline > rec[a].deadline
  THEN <<a>> \o l
  ELSE LET stop(i) == i = Len(l) \/ rec[l[i + 1]].deadline > rec[a].deadline
           i == CHOOSE i \in 1..Len(l) :
                  stop(i) /\ \A j \in 1..(i - 1) : ~stop(j)
       IN  SubSeq(l, 1, i) \o <<a>> \o SubSeq(l, i + 1, Len(l))

\* A deadline one period after the time of computation, whatever the time of
\* the set: AnchoredDeadlines tells it from next_deadline.
next_deadline_unanchored(rec, a, just_now) == just_now + rec[a].period

\* The deadline schedule_next_instance computes.
next_deadline(rec, a, just_now) ==
  LET ms_into_period ==
        IF is_periodic[a] /\ rec[a].period # 0
        THEN (just_now - rec[a].creation_time) % rec[a].period
        ELSE 0
  IN  just_now + (rec[a].period - ms_into_period)

\* schedule_next_instance
schedule_next_instance(S, a, ok) ==
  LET needs_reschedule == S.alarms # <<>> /\ Head(S.alarms) = a
      S1 == IF S.al[a].callback # NULL THEN remove_pending_alarm(S, a) ELSE S
      S2 == [S1 EXCEPT !.al[a].deadline = next_deadline(S1.al, a, now_ms)]
      S3 == [S2 EXCEPT !.alarms = list_insert_by_deadline(@, S2.al, a)]
  IN  IF needs_reschedule \/ (S3.alarms # <<>> /\ Head(S3.alarms) = a)
      THEN reschedule_root_alarm(S3, ok)
      ELSE S3

\* alarm_cancel_internal
alarm_cancel_internal(S, a, ok) ==
  LET needs_reschedule == S.alarms # <<>> /\ Head(S.alarms) = a
      S1 == remove_pending_alarm(S, a)
      S2 == [S1 EXCEPT !.al[a].deadline = 0,
                       !.al[a].prev_deadline = 0,
                       !.al[a].callback = NULL,
                       !.al[a].data = NULL,
                       !.al[a].queue = NULL]
  IN  IF needs_reschedule THEN reschedule_root_alarm(S2, ok) ELSE S2

\* alarm_set_internal, between lock and unlock of the monitor
alarm_set_internal(S, a, period, cb, data, queue, ok) ==
  LET S1 == [S EXCEPT !.al[a].creation_time = now_ms,
                      !.al[a].period = period,
                      !.al[a].queue = queue,
                      !.al[a].callback = cb,
                      !.al[a].data = data]
  IN  schedule_next_instance(S1, a, ok)

\* The loop of alarm_unregister_processing_queue over the nodes of |alarms|.
RECURSIVE unregister_loop(_, _, _, _)
unregister_loop(S, nodes, queue, ok) ==
  IF nodes = <<>> THEN S
  ELSE LET a == Head(nodes)
           S1 == IF S.al[a].queue = queue
                 THEN alarm_cancel_internal(S, a, ok) ELSE S
       IN  unregister_loop(S1, Tail(nodes), queue, ok)

\* A pass that pops the front of |alarms| without comparing its deadline
\* with now(): DispatcherValidatesFront tells it from dispatch_pass.
dispatch_pass_unchecked(S, ok) ==
  IF S.alarms = <<>>
  THEN reschedule_root_alarm(S, ok)
  ELSE LET a == Head(S.alarms)
           S1 == [S EXCEPT !.alarms = list_remove(@, a)]
           S2 == IF is_periodic[a]
                 THEN schedule_next_instance(
                        [S1 EXCEPT !.al[a].prev_deadline = S1.al[a].deadline],
                        a, ok)
                 ELSE S1
           S3 == reschedule_root_alarm(S2, ok)
       IN  IF S3.al[a].queue = NULL
           THEN [S3 EXCEPT !.crash = TRUE]
           ELSE [S3 EXCEPT !.items[S3.al[a].queue] = Append(@, a)]

\* One pass of the loop of callback_dispatch, after semaphore_wait.
dispatch_pass(S, ok) ==
  IF S.alarms = <<>> \/ S.al[Head(S.alarms)].deadline > now_ms
  THEN reschedule_root_alarm(S, ok)
  ELSE LET a == Head(S.alarms)
           S1 == [S EXCEPT !.alarms = list_remove(@, a)]
           S2 == IF is_periodic[a]
                 THEN schedule_next_instance(
                        [S1 EXCEPT !.al[a].prev_deadline = S1.al[a].deadline],
                        a, ok)
                 ELSE S1
           S3 == reschedule_root_alarm(S2, ok)
       IN  IF S3.al[a].queue = NULL
           THEN [S3 EXCEPT !.crash = TRUE]      \* fixed_queue_enqueue(NULL, ..)
           ELSE [S3 EXCEPT !.items[S3.al[a].queue] = Append(@, a)]

\* ------------------------------------------------------------------ state

Start ==
  /\ now_ms = 0
  /\ alarms = <<>>
  /\ al = [a \in Alarms |-> ZeroAlarm]
  /\ items = [q \in Queues |-> <<>>]
  /\ registered = [q \in Queues |-> TRUE]
  /\ callback_lock = [a \in Alarms |-> NoThread]
  /\ freed = [a \in Alarms |-> FALSE]
  /\ monitor = NoThread
  /\ timer_set = FALSE
  /\ timer_at = 0
  /\ wake_at = 0
  /\ wake_lock = 0
  /\ alarm_expired = 0
  /\ alarms_live = TRUE
  /\ crashed = FALSE
  /\ pc = [t \in Threads |-> "idle"]
  /\ target = [t \in Threads |-> NULL]
  /\ cur = [w \in Queues |-> NULL]
  /\ run = [w \in Queues |-> NoRun]
  /\ ops = 0
  /\ cbops = 0
  /\ g_cancelled = [a \in Alarms |-> "no"]
  /\ g_invocations = [a \in Alarms |-> 0]
  /\ g_uaf = "none"

\* alarm_new("A"), alarm_new_periodic("B")
Init ==
  /\ Start
  /\ may_fail = TRUE
  /\ setup = [periodic |-> {"B"}, ticks |-> MaxTicks, ops |-> MaxOps,
              cbops |-> MaxCbOps]

InitPeriodic ==
  /\ Start
  /\ may_fail = TRUE
  /\ setup = [periodic |-> {"B"}, ticks |-> MaxTicksPeriodic,
              ops |-> MaxOpsPeriodic, cbops |-> 0]

\* alarm_new("A"), alarm_new("B"); every acquire_wake_lock succeeds
InitOneShots ==
  /\ Start
  /\ may_fail = FALSE
  /\ setup = [periodic |-> {}, ticks |-> MaxTicksOneShots,
              ops |-> MaxOpsOneShots, cbops |-> 0]

Running == alarms_live /\ ~crashed

\* What acquire_wake_lock may answer: TRUE is BT_STATUS_SUCCESS.
AcquireOutcomes == IF may_fail THEN BOOLEAN ELSE {TRUE}

\* Thread |t| is where user code runs and may call the API: the caller
\* thread between calls, a worker inside a callback.
CanCall(t) ==
  /\ Running
  /\ monitor = NoThread
  /\ \/ t \in Callers /\ pc[t] = "idle" /\ ops < setup.ops
     \/ t \in Queues /\ pc[t] = "callback" /\ cbops < setup.cbops

Charge(t) ==
  IF t \in Callers
  THEN ops' = ops + 1 /\ cbops' = cbops
  ELSE ops' = ops /\ cbops' = cbops + 1

\* User code passes an alarm to the API only while it owns it: not after
\* alarm_free, not while another thread frees it.
Usable(a) ==
  /\ ~freed[a]
  /\ \A t \in Threads : ~(pc[t] = "free_wait" /\ target[t] = a)

\* A callback sets and frees no alarm but its own.
OwnAlarm(t, a) == t \in Queues => cur[t] = a

\* Where a thread is once alarm_cancel or alarm_free returns.
Resume(t) == IF t \in Callers THEN "idle" ELSE "callback"

\* --------------------------------------------------------------- the clock

Tick ==
  /\ Running
  /\ now_ms < setup.ticks * MS_PER_SEC
  /\ now_ms' = now_ms + MS_PER_SEC
  /\ UNCHANGED <<alarms, al, items, registered, callback_lock, freed, monitor,
                 timer_set, timer_at, wake_at, wake_lock, alarm_expired,
                 alarms_live, crashed, pc, target, cur, run, ops, cbops,
                 setup, may_fail, g_cancelled, g_invocations, g_uaf>>

\* timer_callback, run by the posix timer when it expires.
timer_callback ==
  /\ Running
  /\ timer_at # 0 /\ timer_at <= now_ms
  /\ alarm_expired < MaxSem
  /\ alarm_expired' = alarm_expired + 1
  /\ timer_at' = 0
  /\ UNCHANGED <<now_ms, alarms, al, items, registered, callback_lock, freed,
                 monitor, timer_set, wake_at, wake_lock, alarms_live, crashed,
                 pc, target, cur, run, ops, cbops, setup, may_fail, g_cancelled,
                 g_invocations, g_uaf>>

\* timer_callback, run by the wake alarm set_wake_alarm requested.
wake_alarm_callback ==
  /\ Running
  /\ wake_at # 0 /\ wake_at <= now_ms
  /\ alarm_expired < MaxSem
  /\ alarm_expired' = alarm_expired + 1
  /\ wake_at' = 0
  /\ UNCHANGED <<now_ms, alarms, al, items, registered, callback_lock, freed,
                 monitor, timer_set, timer_at, wake_lock, alarms_live, crashed,
                 pc, target, cur, run, ops, cbops, setup, may_fail, g_cancelled,
                 g_invocations, g_uaf>>

\* ------------------------------------------------------------ the public API

alarm_set_on_queue(t, a, period, cb, queue) ==
  /\ CanCall(t)
  /\ Usable(a)
  /\ OwnAlarm(t, a)
  /\ \E ok \in AcquireOutcomes :
       Commit(alarm_set_internal(Cur, a, period, cb, DataOf(cb), queue, ok))
  /\ Charge(t)
  /\ g_cancelled' = [g_cancelled EXCEPT ![a] = "no"]
  /\ g_invocations' = [g_invocations EXCEPT ![a] = 0]
  /\ UNCHANGED <<now_ms, registered, callback_lock, freed, monitor,
                 alarms_live, pc, target, cur, run, setup, may_fail, g_uaf>>

\* alarm_cancel up to the unlock of the monitor.
alarm_cancel(t, a) ==
  /\ CanCall(t)
  /\ Usable(a)
  /\ \E ok \in AcquireOutcomes : Commit(alarm_cancel_internal(Cur, a, ok))
  /\ Charge(t)
  /\ pc' = [pc EXCEPT ![t] = "cancel_wait"]
  /\ target' = [target EXCEPT ![t] = a]
  /\ g_cancelled' = [g_cancelled EXCEPT ![a] = "in_cancel"]
  /\ UNCHANGED <<now_ms, registered, callback_lock, freed, monitor,
                 alarms_live, cur, run, setup, may_fail, g_invocations, g_uaf>>

\* The history of a cancel that returns: it stands unless a set came since.
Returned(t, a) ==
  IF g_cancelled[a] = "in_cancel"
  THEN [g_cancelled EXCEPT
          ![a] = IF t \in Queues /\ cur[t] = a THEN "returned_self"
                 ELSE "returned"]
  ELSE g_cancelled

\* An alarm_cancel that returns without taking callback_lock:
\* CancelDrainsCallback tells it from alarm_cancel_return.
alarm_cancel_return_no_wait(t) ==
  /\ Running
  /\ pc[t] = "cancel_wait"
  /\ pc' = [pc EXCEPT ![t] = Resume(t)]
  /\ target' = [target EXCEPT ![t] = NULL]
  /\ g_cancelled' = Returned(t, target[t])
  /\ UNCHANGED <<now_ms, alarms, al, items, registered, callback_lock, freed,
                 monitor, timer_set, timer_at, wake_at, wake_lock,
                 alarm_expired, alarms_live, crashed, cur, run, ops, cbops,
                 setup, may_fail, g_invocations, g_uaf>>

\* alarm_cancel from pthread_mutex_lock(&alarm->callback_lock) to its return:
\* the lock is recursive, its owner passes.
alarm_cancel_return(t) ==
  /\ Running
  /\ pc[t] = "cancel_wait"
  /\ callback_lock[target[t]] \in {NoThread, t}
  /\ pc' = [pc EXCEPT ![t] = Resume(t)]
  /\ target' = [target EXCEPT ![t] = NULL]
  /\ g_cancelled' = Returned(t, target[t])
  /\ UNCHANGED <<now_ms, alarms, al, items, registered, callback_lock, freed,
                 monitor, timer_set, timer_at, wake_at, wake_lock,
                 alarm_expired, alarms_live, crashed, cur, run, ops, cbops,
                 setup, may_fail, g_invocations, g_uaf>>

\* alarm_free up to the unlock of the monitor inside its alarm_cancel.
alarm_free(t, a) ==
  /\ CanCall(t)
  /\ Usable(a)
  /\ OwnAlarm(t, a)
  /\ \A u \in Threads : target[u] # a
  /\ \E ok \in AcquireOutcomes : Commit(alarm_cancel_internal(Cur, a, ok))
  /\ Charge(t)
  /\ pc' = [pc EXCEPT ![t] = "free_wait"]
  /\ target' = [target EXCEPT ![t] = a]
  /\ g_cancelled' = [g_cancelled EXCEPT ![a] = "in_cancel"]
  /\ UNCHANGED <<now_ms, registered, callback_lock, freed, monitor,
                 alarms_live, cur, run, setup, may_fail, g_invocations, g_uaf>>

\* alarm_free from the wait on callback_lock inside its alarm_cancel to the
\* release of the record.
alarm_free_return(t) ==
  /\ Running
  /\ pc[t] = "free_wait"
  /\ callback_lock[target[t]] \in {NoThread, t}
  /\ freed' = [freed EXCEPT ![target[t]] = TRUE]
  /\ pc' = [pc EXCEPT ![t] = Resume(t)]
  /\ target' = [target EXCEPT ![t] = NULL]
  /\ g_cancelled' = Returned(t, target[t])
  /\ UNCHANGED <<now_ms, alarms, al, items, registered, callback_lock,
                 monitor, timer_set, timer_at, wake_at, wake_lock,
                 alarm_expired, alarms_live, crashed, cur, run, ops, cbops,
                 setup, may_fail, g_invocations, g_uaf>>

alarm_unregister_processing_queue(t, queue) ==
  /\ CanCall(t)
  /\ t \in Callers
  /\ registered[queue]
  /\ registered' = [registered EXCEPT ![queue] = FALSE]
  /\ \E ok \in AcquireOutcomes : Commit(unregister_loop(Cur, alarms, queue, ok))
  /\ Charge(t)
  /\ UNCHANGED <<now_ms, callback_lock, freed, monitor, alarms_live, pc,
                 target, cur, run, setup, may_fail, g_cancelled, g_invocations, g_uaf>>

\* alarm_cleanup: the dispatcher is stopped, both timers are deleted, the
\* list is freed.
alarm_cleanup(t) ==
  /\ CanCall(t)
  /\ t \in Callers
  /\ alarms_live' = FALSE
  /\ alarms' = <<>>
  /\ timer_at' = 0
  /\ Charge(t)
  /\ UNCHANGED <<now_ms, al, items, registered, callback_lock, freed, monitor,
                 timer_set, wake_at, wake_lock, alarm_expired, crashed, pc,
                 target, cur, run, setup, may_fail, g_cancelled, g_invocations, g_uaf>>

\* ------------------------------------------------------------ the dispatcher

callback_dispatch ==
  /\ Running
  /\ alarm_expired > 0
  /\ monitor = NoThread
  /\ \E ok \in AcquireOutcomes :
       Commit(dispatch_pass([Cur EXCEPT !.sem = @ - 1], ok))
  /\ UNCHANGED <<now_ms, registered, callback_lock, freed, monitor,
                 alarms_live, pc, target, cur, run, ops, cbops, setup, may_fail,
                 g_cancelled, g_invocations, g_uaf>>

\* --------------------------------------------------- the worker-queue handler

\* callback(data) is entered by worker |w| for alarm |a|: the handler holds
\* a's callback_lock and has released the monitor.
EnterCallback(w, a, cb) ==
  /\ callback_lock' = [callback_lock EXCEPT ![a] = w]
  /\ monitor' = NoThread
  /\ pc' = [pc EXCEPT ![w] = "callback"]
  /\ crashed' = (cb = NULL)
  /\ g_invocations' = [g_invocations EXCEPT ![a] = @ + 1]

\* The locals alarm_queue_ready captures from the alarm it dequeued.
handler_locals(rec, a) ==
  [callback |-> rec[a].callback,
   data |-> rec[a].data,
   deadline |-> IF is_periodic[a] THEN rec[a].prev_deadline
                ELSE rec[a].deadline]

\* A handler that resets nothing: ScheduledIsPendingOrPosted tells it from
\* handler_reset.
handler_reset_nothing(rec, a) == rec

\* A one-shot alarm is fully serviced once dequeued: its state is reset.
handler_reset(rec, a) ==
  IF is_periodic[a] THEN rec
  ELSE [rec EXCEPT ![a].deadline = 0,
                   ![a].callback = NULL,
                   ![a].data = NULL]

\* alarm_queue_ready from the lock of the monitor to the lock of callback_lock.
alarm_queue_ready(w) ==
  /\ Running
  /\ registered[w]
  /\ pc[w] = "idle"
  /\ items[w] # <<>>
  /\ monitor = NoThread
  /\ LET a == Head(items[w])
     IN  /\ items' = [items EXCEPT ![w] = Tail(@)]
         /\ cur' = [cur EXCEPT ![w] = a]
         /\ run' = [run EXCEPT ![w] = handler_locals(al, a)]
         /\ al' = handler_reset(al, a)
         /\ g_uaf' = IF freed[a] THEN "dequeue" ELSE g_uaf
         /\ IF callback_lock[a] = NoThread
            THEN EnterCallback(w, a, al[a].callback)
            ELSE /\ monitor' = w
                 /\ pc' = [pc EXCEPT ![w] = "lockcb"]
                 /\ UNCHANGED <<callback_lock, crashed, g_invocations>>
  /\ UNCHANGED <<now_ms, alarms, registered, freed, timer_set, timer_at,
                 wake_at, wake_lock, alarm_expired, alarms_live, target, ops,
                 cbops, setup, may_fail, g_cancelled>>

\* The handler gets the callback_lock it waited for, holding the monitor.
alarm_queue_ready_locked(w) ==
  /\ Running
  /\ pc[w] = "lockcb"
  /\ callback_lock[cur[w]] = NoThread
  /\ EnterCallback(w, cur[w], run[w].callback)
  /\ UNCHANGED <<now_ms, alarms, al, items, registered, freed, timer_set,
                 timer_at, wake_at, wake_lock, alarm_expired, alarms_live,
                 target, cur, run, ops, cbops, setup, may_fail, g_cancelled, g_uaf>>

\* alarm_queue_ready after callback(data) returned: the statistics of the
\* record are updated and its callback_lock is released.  When the record was
\* freed meanwhile both touch released memory: the process goes on or dies.
alarm_queue_ready_done(w) ==
  /\ Running
  /\ pc[w] = "callback"
  /\ callback_lock' = [callback_lock EXCEPT ![cur[w]] = NoThread]
  /\ pc' = [pc EXCEPT ![w] = "idle"]
  /\ cur' = [cur EXCEPT ![w] = NULL]
  /\ run' = [run EXCEPT ![w] = NoRun]
  /\ g_uaf' = IF freed[cur[w]] /\ g_uaf = "none" THEN "stats" ELSE g_uaf
  /\ crashed' \in (IF freed[cur[w]] THEN BOOLEAN ELSE {FALSE})
  /\ UNCHANGED <<now_ms, alarms, al, items, registered, freed, monitor,
                 timer_set, timer_at, wake_at, wake_lock, alarm_expired,
                 alarms_live, target, ops, cbops, setup, may_fail, g_cancelled,
                 g_invocations>>

\* ------------------------------------------------------------ specification

\* No wake alarm comes due within the ticks of this specification: the
\* callback of the wake alarm is an action of the longer one.
Next ==
  \/ Tick
  \/ timer_callback
  \/ callback_dispatch
  \/ \E t \in Threads, a \in Alarms :
        \E period \in PeriodsOf(a), cb \in CallbacksOf(a), queue \in QueuesOf(a) :
          alarm_set_on_queue(t, a, period, cb, queue)
  \/ \E t \in Threads, a \in Alarms : alarm_cancel(t, a)
  \/ \E t \in Threads : alarm_cancel_return(t)
  \/ \E t \in Threads, a \in Alarms : alarm_free(t, a)
  \/ \E t \in Threads : alarm_free_return(t)
  \/ \E t \in Callers, queue \in Queues :
        alarm_unregister_processing_queue(t, queue)
  \/ \E t \in Callers : alarm_cleanup(t)
  \/ \E w \in Queues : alarm_queue_ready(w)
  \/ \E w \in Queues : alarm_queue_ready_locked(w)
  \/ \E w \in Queues : alarm_queue_ready_done(w)

Spec == Init /\ [][Next]_vars

\* A longer run with fewer calls, all of them made by the caller thread.
NextPeriodic ==
  \/ Tick
  \/ timer_callback
  \/ wake_alarm_callback
  \/ callback_dispatch
  \/ \E t \in Callers, a \in Alarms :
        \E period \in PeriodicRunPeriodsOf(a), queue \in PeriodicRunQueuesOf(a) :
          alarm_set_on_queue(t, a, period, "cb1", queue)
  \/ \E t \in Callers, a \in Alarms : alarm_cancel(t, a)
  \/ \E t \in Callers : alarm_cancel_return(t)
  \/ \E w \in Queues : alarm_queue_ready(w)
  \/ \E w \in Queues : alarm_queue_ready_done(w)

SpecPeriodic == InitPeriodic /\ [][NextPeriodic]_vars

\* Two one-shot alarms, set and cancelled by the caller thread.
NextOneShots ==
  \/ Tick
  \/ timer_callback
  \/ callback_dispatch
  \/ \E t \in Callers, a \in Alarms :
        \E period \in PeriodsOf(a), queue \in QueuesOf(a) :
          alarm_set_on_queue(t, a, period, "cb1", queue)
  \/ \E t \in Callers, a \in Alarms : alarm_cancel(t, a)
  \/ \E t \in Callers : alarm_cancel_return(t)
  \/ \E w \in Queues : alarm_queue_ready(w)
  \/ \E w \in Queues : alarm_queue_ready_locked(w)
  \/ \E w \in Queues : alarm_queue_ready_done(w)

SpecOneShots == InitOneShots /\ [][NextOneShots]_vars

\* ------------------------------------------------------------- properties

\* Worker |w| is inside callback(data) of alarm |a|, possibly in a call of
\* the API it made from there.
Executing(w, a) ==
  /\ cur[w] = a
  /\ pc[w] \in {"callback", "cancel_wait", "free_wait"}

\* This step is worker |w| entering callback(data).
Begins(w) == pc[w] \in {"idle", "lockcb"} /\ pc'[w] = "callback"

Sorted(l, rec) ==
  \A i \in 1..(Len(l) - 1) : rec[l[i]].deadline <= rec[l[i + 1]].deadline

Posted(a) == \E q \in Queues : InSeq(items[q], a)

\* deadline |d| is creation_time + k * period for some k >= 1
OnGrid(r, d) ==
  /\ r.period > 0
  /\ d > r.creation_time
  /\ (d - r.creation_time) % r.period = 0

NoFireAfterCancel ==
  [][\A w \in Queues :
       Begins(w) => g_cancelled[cur'[w]] # "returned"]_vars

\* C3: alarm_cancel(A) called from A's callback finds callback_lock owned by
\* its own thread, so it passes; and once it has returned no worker enters
\* A's callback until A is set again.
SelfCancelIsLegal ==
  [][\A w \in Queues :
       /\ (pc'[w] = "cancel_wait" /\ target'[w] = cur'[w])
            => callback_lock'[cur'[w]] = w
       /\ Begins(w) => g_cancelled[cur'[w]] # "returned_self"]_vars

\* C4: the handler finishes no callback on a record that alarm_free released
\* during the callback: it neither updates its statistics nor unlocks its
\* callback_lock.
HandlerLeavesFreedRecordAlone == g_uaf # "stats"

\* C5: a one-shot alarm that was set and not cancelled since has had its
\* callback invoked at most once.
OneShotFiresAtMostOnce ==
  \A a \in Alarms :
    (~is_periodic[a] /\ g_cancelled[a] = "no") => g_invocations[a] <= 1

PendingListSorted == monitor = NoThread => Sorted(alarms, al)

\* C8: an alarm is at most once in the pending list and at most once in a
\* processing queue.
Uniqueness ==
  \A a \in Alarms :
    /\ Count(alarms, a) <= 1
    /\ \A q \in Queues : Count(items[q], a) <= 1

\* The dispatcher fired a periodic alarm a second time while the copy of its
\* first firing was still in the queue.
RefiredWhileQueued ==
  \E a \in Alarms :
    /\ is_periodic[a]
    /\ al[a].queue # NULL
    /\ InSeq(items[al[a].queue], a)
    /\ g_invocations[a] = 0
    /\ al[a].prev_deadline > al[a].creation_time + al[a].period

WakeLockBalance ==
  (alarms_live /\ monitor = NoThread /\ alarms = <<>>) => wake_lock = 0

\* This step is the dispatcher popping the front of the pending list.
DispatcherPops ==
  /\ callback_dispatch
  /\ alarms # <<>>
  /\ al[Head(alarms)].deadline <= now_ms

\* This step is worker |w| taking an alarm off its queue.
Dequeues(w) == pc[w] = "idle" /\ pc'[w] \in {"callback", "lockcb"}

\* C11: the alarm the dispatcher pops has the earliest deadline of the
\* pending list; when a callback begins, no alarm still pending on the same
\* queue has a deadline earlier than the one being serviced; and a worker
\* takes its queue in the order the dispatcher filled it.
FiresInDeadlineOrder ==
  [][/\ DispatcherPops
          => \A x \in Alarms :
               InSeq(alarms, x) => al[Head(alarms)].deadline <= al[x].deadline
     /\ \A w \in Queues :
          /\ Begins(w)
               => \A x \in Alarms \ {cur'[w]} :
                    (InSeq(alarms, x) /\ al[x].queue = al[cur'[w]].queue)
                      => run'[w].deadline <= al[x].deadline
          /\ Dequeues(w)
               => cur'[w] = Head(items[w]) /\ items'[w] = Tail(items[w])]_vars

\* Where |x| is in list |l|.
Pos(l, x) == CHOOSE i \in 1..Len(l) : l[i] = x

\* This step links |y| into the pending list with a new deadline.
Inserted(y) ==
  /\ InSeq(alarms', y)
  /\ al'[y].deadline # 0
  /\ al'[y].deadline # al[y].deadline \/ ~InSeq(alarms, y)

\* C12: an alarm linked into the pending list comes after every alarm of the
\* same deadline that is in it; and no callback begins for the pending
\* instance of an alarm while an alarm of the same deadline and queue is ahead
\* of it in the list.
TiesKeepOrder ==
  [][/\ \A y \in Alarms :
          Inserted(y)
            => \A x \in Alarms \ {y} :
                 (InSeq(alarms', x) /\ al'[x].deadline = al'[y].deadline)
                   => Pos(alarms', x) < Pos(alarms', y)
     /\ \A w \in Queues :
          (Begins(w) /\ InSeq(alarms, cur'[w])
             /\ run'[w].deadline = al[cur'[w]].deadline)
            => \A x \in Alarms \ {cur'[w]} :
                 (InSeq(alarms, x)
                    /\ al[x].queue = al[cur'[w]].queue
                    /\ al[x].deadline = al[cur'[w]].deadline)
                   => Pos(alarms, cur'[w]) < Pos(alarms, x)]_vars

\* C13: when alarm_unregister_processing_queue(Q) has run, every alarm that
\* was bound to Q has callback NULL and deadline 0 and is neither in the
\* pending list nor in Q.
UnregisterCancelsBound ==
  [][\A q \in Queues :
       (registered[q] /\ ~registered'[q])
         => \A a \in Alarms :
              al[a].queue = q
                => /\ al'[a].callback = NULL
                   /\ al'[a].deadline = 0
                   /\ ~InSeq(alarms', a)
                   /\ ~InSeq(items'[q], a)]_vars

\* In this step worker |w|, inside a callback, makes a call of the API that
\* locks the monitor.
CallsFromCallback(w) ==
  /\ pc[w] = "callback"
  /\ cbops' # cbops
  /\ pc'[w] # "callback" \/ \A u \in Queues \ {w} : pc[u] # "callback"

\* C14: a thread that locks the monitor holds no callback_lock.
MonitorBeforeCallbackLock ==
  [][\A w \in Queues :
       CallsFromCallback(w) => \A a \in Alarms : callback_lock[a] # w]_vars

\* This step is a call of alarm_set_on_queue for |a|.
SetsAlarm(a) ==
  \E t \in Threads, period \in PeriodsOf(a) \cup PeriodicRunPeriodsOf(a),
     cb \in CallbacksOf(a), queue \in Queues :
    alarm_set_on_queue(t, a, period, cb, queue)

\* C15: when alarm_set_on_queue has run, the alarm is once in the pending list
\* and no copy of it is left in any processing queue.
RearmDrainsCopies ==
  [][\A a \in Alarms :
       SetsAlarm(a)
         => /\ Count(alarms', a) = 1
            /\ \A q \in Queues : ~InSeq(items'[q], a)]_vars

\* C16: when alarm_set_on_queue has put an alarm within the short horizon at
\* the front of the pending list, the timer is armed for its deadline,
\* whatever acquire_wake_lock answered.
FrontWithinHorizonIsTimed ==
  [][\A a \in Alarms :
       (SetsAlarm(a) /\ Head(alarms') = a
          /\ al'[a].deadline - now_ms < TIMER_INTERVAL_FOR_WAKELOCK_IN_MS)
         => timer_set' /\ timer_at' = al'[a].deadline]_vars

\* C17: when alarm_cleanup has run, the wake lock is not held and timer_set
\* is false.
CleanupReleasesWakeLock ==
  [][(alarms_live /\ ~alarms_live') => (wake_lock' = 0 /\ ~timer_set')]_vars

\* The front of |alarms| is not due, or there is none: list_is_empty(alarms)
\* || list_front(alarms)->deadline > now().
FrontNotDue == alarms = <<>> \/ al[Head(alarms)].deadline > now_ms

\* C18: the dispatcher enqueues no alarm but the front of the pending list,
\* and only when the deadline of that alarm is not after the clock; a pass
\* that finds the list empty or its front not due enqueues nothing and
\* changes neither the list nor a field of any alarm.
DispatcherValidatesFront ==
  [][callback_dispatch =>
       /\ \A q \in Queues, a \in Alarms :
            Count(items'[q], a) > Count(items[q], a) =>
              /\ alarms # <<>> /\ a = Head(alarms)
              /\ al[a].deadline <= now_ms
       /\ FrontNotDue => alarms' = alarms /\ al' = al /\ items' = items]_vars

\* A signal waits for the dispatcher while the front of the list is not due
\* and an alarm popped earlier is still posted.
SpuriousSignalPending ==
  /\ Running /\ monitor = NoThread
  /\ alarm_expired > 0
  /\ alarms # <<>> /\ al[Head(alarms)].deadline > now_ms
  /\ \E q \in Queues : items[q] # <<>>

\* The steps that end with a call of reschedule_root_alarm: every pass of the
\* dispatcher, a set of the alarm that was or becomes the front of the list,
\* a cancel of the front.
Reschedules ==
  \/ callback_dispatch
  \/ \E a \in Alarms :
        /\ SetsAlarm(a)
        /\ (alarms # <<>> /\ Head(alarms) = a) \/ Head(alarms') = a
  \/ \E t \in Threads, a \in Alarms :
        alarm_cancel(t, a) /\ alarms # <<>> /\ Head(alarms) = a

\* C19: after reschedule_root_alarm with a pending alarm, a front less than
\* the threshold ahead has the wake lock held and the timer armed for its
\* deadline; a front further ahead has the wake alarm requested for its
\* deadline, the timer disarmed and the wake lock not held.
WakePolicyBranch ==
  [][(Reschedules /\ alarms' # <<>>) =>
       LET deadline == al'[Head(alarms')].deadline
       IN  IF deadline - now_ms < TIMER_INTERVAL_FOR_WAKELOCK_IN_MS
           THEN wake_lock' > 0 /\ timer_set' /\ timer_at' = deadline
           ELSE /\ wake_at' = deadline
                /\ ~timer_set' /\ timer_at' = 0 /\ wake_lock' = 0]_vars

\* Alarm |a| was set while worker |w| is inside its callback, and has been
\* neither cancelled nor invoked since.
RearmedInCallback(w, a) ==
  /\ Running
  /\ \A q \in Queues : registered[q]
  /\ Executing(w, a)
  /\ g_invocations[a] = 0
  /\ g_cancelled[a] = "no"

\* The arming alarm_set_internal and schedule_next_instance leave: the
\* callback with its data, and the alarm in the pending list with the deadline
\* computed from the set, or popped from it and posted; or the alarm was
\* dequeued since by a handler that holds its parameters and waits for
\* callback_lock.
Armed(a) ==
  \/ /\ al[a].callback # NULL
     /\ al[a].data = DataOf(al[a].callback)
     /\ \/ /\ InSeq(alarms, a)
           /\ IF is_periodic[a] THEN OnGrid(al[a], al[a].deadline)
              ELSE al[a].deadline = al[a].creation_time + al[a].period
        \/ Posted(a)
  \/ /\ ~InSeq(alarms, a) /\ ~Posted(a)
     /\ \E u \in Queues :
          /\ pc[u] = "lockcb" /\ cur[u] = a
          /\ run[u].callback # NULL
          /\ run[u].data = DataOf(run[u].callback)

\* C20: a set of an alarm whose callback is running leaves the locals of the
\* running handler as they were captured at the dequeue; the completion of
\* the handler changes no alarm, list or queue; and from the set to the
\* completion the alarm stays armed with the new callback and data, pending
\* with the new deadline or already popped for it.
RearmDuringCallback ==
  [][\A w \in Queues :
       /\ (pc[w] = "callback" /\ pc'[w] = "idle") =>
            al' = al /\ alarms' = alarms /\ items' = items
       /\ \A a \in Alarms :
            /\ (Executing(w, a) /\ pc'[w] # "idle") => run'[w] = run[w]
            /\ RearmedInCallback(w, a)' => Armed(a)']_vars

\* C21: whenever the monitor is free and an alarm is pending, the timer is
\* armed for the deadline of the front of the list, or the wake alarm
\* requested last is for that deadline, or a signal is pending for the
\* dispatcher.
FrontCovered ==
  (Running /\ monitor = NoThread /\ alarms # <<>>) =>
    \/ timer_set /\ timer_at = al[Head(alarms)].deadline
    \/ wake_at # 0 /\ wake_at = al[Head(alarms)].deadline
    \/ alarm_expired > 0

\* ------------------------------------------------ the wait for the monitor

\* alarm_new("A"), alarm_new_periodic("B"); every acquire_wake_lock succeeds
InitLocks ==
  /\ Start
  /\ may_fail = FALSE
  /\ setup = [periodic |-> {"B"}, ticks |-> MaxTicksLocks,
              ops |-> MaxOpsLocks, cbops |-> MaxCbOpsLocks]

\* alarm_cancel arrives at pthread_mutex_lock(&monitor) while a handler that
\* waits for a callback_lock holds the monitor: the thread blocks there.
alarm_cancel_blocked(t, a) ==
  /\ Running
  /\ monitor \notin {NoThread, t}
  /\ \/ t \in Callers /\ pc[t] = "idle" /\ ops < setup.ops
     \/ t \in Queues /\ pc[t] = "callback" /\ cbops < setup.cbops
  /\ Usable(a)
  /\ Charge(t)
  /\ pc' = [pc EXCEPT ![t] = "lockmon"]
  /\ target' = [target EXCEPT ![t] = a]
  /\ UNCHANGED <<now_ms, alarms, al, items, registered, callback_lock, freed,
                 monitor, timer_set, timer_at, wake_at, wake_lock,
                 alarm_expired, alarms_live, crashed, cur, run, setup,
                 may_fail, g_cancelled, g_invocations, g_uaf>>

\* The blocked alarm_cancel gets the monitor: alarm_cancel_internal, unlock.
alarm_cancel_locked(t) ==
  /\ Running
  /\ pc[t] = "lockmon"
  /\ monitor = NoThread
  /\ \E ok \in AcquireOutcomes :
       Commit(alarm_cancel_internal(Cur, target[t], ok))
  /\ pc' = [pc EXCEPT ![t] = "cancel_wait"]
  /\ g_cancelled' = [g_cancelled EXCEPT ![target[t]] = "in_cancel"]
  /\ UNCHANGED <<now_ms, registered, callback_lock, freed, monitor,
                 alarms_live, target, cur, run, ops, cbops, setup, may_fail,
                 g_invocations, g_uaf>>

\* The caller thread sets the alarms; the caller thread and the callbacks
\* cancel them.
NextLocks ==
  \/ Tick
  \/ timer_callback
  \/ callback_dispatch
  \/ \E t \in Callers, a \in Alarms :
        \E period \in PeriodsOf(a), queue \in QueuesOf(a) :
          alarm_set_on_queue(t, a, period, "cb1", queue)
  \/ \E t \in Threads, a \in Alarms : alarm_cancel(t, a)
  \/ \E t \in Threads, a \in Alarms : alarm_cancel_blocked(t, a)
  \/ \E t \in Threads : alarm_cancel_locked(t)
  \/ \E t \in Threads : alarm_cancel_return(t)
  \/ \E w \in Queues : alarm_queue_ready(w)
  \/ \E w \in Queues : alarm_queue_ready_locked(w)
  \/ \E w \in Queues : alarm_queue_ready_done(w)

SpecLocks == InitLocks /\ [][NextLocks]_vars

\* Thread |u| is blocked in pthread_mutex_lock on a lock thread |v| holds:
\* the monitor, or the callback_lock of the alarm it cancels, frees or is
\* about to service.
WaitsFor(u, v) ==
  /\ u # v
  /\ \/ pc[u] = "lockmon" /\ monitor = v
     \/ pc[u] \in {"cancel_wait", "free_wait"} /\ callback_lock[target[u]] = v
     \/ pc[u] = "lockcb" /\ callback_lock[cur[u]] = v

\* C22: no set of threads waits in a cycle on the monitor and the
\* callback_locks.
NoCyclicWait ==
  /\ \A u, v \in Threads : ~(WaitsFor(u, v) /\ WaitsFor(v, u))
  /\ \A u, v, x \in Threads :
       ~(WaitsFor(u, v) /\ WaitsFor(v, x) /\ WaitsFor(x, u))

====
